---- MODULE Spec2Model ----
(***************************************************************************)
(* Plinko round controller (src/games/plinko/plinko.js) on top of the chip *)
(* ledger (src/js/chip-manager.js).                                        *)
(*                                                                         *)
(* Lengths are kept in quarter pixels so that the halvings of createPegs   *)
(* (pegGap / 2, canvasWidth / 2, (left + right) / 2) stay integers.        *)
(* Multipliers are kept in tenths (0.3 is 3, 1.2 is 12, 10 is 100).        *)
(* Strings of decimal digits (the localStorage value, the text of the bet  *)
(* input) are sequences of digits; the empty sequence is the absent value  *)
(* (getItem returning null, an input text parseInt cannot read).           *)
(***************************************************************************)
EXTENDS Integers, Sequences, FiniteSets

\* ---------------------------------------------------------------- bounds
MaxDrops == 2
CapDrops == 6
MaxPairs == 2
MaxCalls == 3

\* ------------------------------------------------------- CONFIG (plinko)
Unit == 4
rows == 12
pegGap == 35
canvasWidth == 500
multipliers == <<100, 30, 15, 12, 10, 5, 3, 5, 10, 12, 15, 30, 100>>
MultUnit == 10
MinBet == 10
DefaultBet == 100
AdjustMax == 10000
BallCap == 5

\* ------------------------------------------------- CONFIG (chip manager)
INITIAL_BALANCE == 10000
\* amounts handed to the ledger are counted in halves of a chip, so that
\* Math.floor has fractions to cut; balances are whole chips
AmtUnit == 2
Chips(n) == n * AmtUnit

\* ----------------------------------------------------------- input sets
\* landing positions ball.position.x, in pixels
LandingPx == <<-4, 250, 500>>
\* where the balls are when a collision event is delivered
Positions ==
  {[b \in 1..(CapDrops + 1) |-> Unit * LandingPx[((b + k) % 3) + 1]] :
     k \in 0..2}
\* amounts handed to setBet, deltas handed to adjustBet
SetBetAmounts == {0, 5, 10500}
AdjustDeltas == {-20000}
\* balances a previous session may have left in the store
StoredAtStart == {500}
\* amounts handed to the ledger by other callers, in halves of a chip:
\* -1.5, 0.5, 100 and 1000
ApiAmounts == {0 - 3, 1, 200, 2000}

Min(a, b) == IF a < b THEN a ELSE b
Max(a, b) == IF a > b THEN a ELSE b

\* ------------------------------------------------------------- strings
RECURSIVE toString(_)
\* Number.prototype.toString of a non-negative integer
toString(n) == IF n < 10 THEN <<n>> ELSE Append(toString(n \div 10), n % 10)

RECURSIVE ParseInt(_)
\* parseInt(s, 10) of a non-empty digit string
ParseInt(s) ==
  IF Len(s) = 1 THEN s[1]
  ELSE 10 * ParseInt(SubSeq(s, 1, Len(s) - 1)) + s[Len(s)]

\* =========================================================== ChipManager
\* A ledger L is [stored, memoryBalance, useMemoryFallback, notified,
\* threw]: stored is localStorage["arcade_chips"], memoryBalance is <<>> for
\* null and <<v>> otherwise, notified is the list of chipBalanceChange
\* events dispatched by the handler in progress, threw tells whether a store
\* access of that handler threw.  A fault f is [r, w]: whether getItem /
\* setItem throws during the call.

\* Math.floor of an amount given in halves
floor(amount) == amount \div AmtUnit

\* a catch that forgets to switch modes
fallBackForgotten(L) == [L EXCEPT !.threw = TRUE]

\* lines 56 and 77: a store access threw, the ledger goes to memory
fallBack(L) == [L EXCEPT !.useMemoryFallback = TRUE, !.threw = TRUE]

\* a write that forgets the lower bound
valueOfUnclamped(amount) == floor(amount)

\* line 69: the value setBalance writes
valueOf(amount) == Max(0, floor(amount))

setBalance(L, amount, f) ==
  LET value == valueOf(amount) IN
  [L |-> IF L.useMemoryFallback
           THEN [L EXCEPT !.memoryBalance = <<value>>,
                          !.notified = Append(@, value)]
         ELSE IF f.w
           THEN [fallBack(L) EXCEPT !.memoryBalance = <<value>>,
                                    !.notified = Append(@, value)]
         ELSE [L EXCEPT !.stored = toString(value),
                        !.notified = Append(@, value)],
   ret |-> value]

MemoryRead(L) ==
  LET M == IF L.memoryBalance = <<>> THEN <<INITIAL_BALANCE>>
           ELSE L.memoryBalance IN
  [L |-> [L EXCEPT !.memoryBalance = M], ret |-> M[1]]

getBalance(L, f) ==
  IF L.useMemoryFallback THEN MemoryRead(L)
  ELSE IF f.r THEN MemoryRead(fallBack(L))
  ELSE IF L.stored = <<>>
    THEN [L |-> setBalance(L, Chips(INITIAL_BALANCE), f).L,
          ret |-> INITIAL_BALANCE]
  ELSE [L |-> L, ret |-> ParseInt(L.stored)]

deduct(L, amount, f) ==
  LET g == getBalance(L, f) IN
  IF Chips(g.ret) < amount THEN [L |-> g.L, ret |-> FALSE]
  ELSE [L |-> setBalance(g.L, Chips(g.ret) - amount, f).L, ret |-> TRUE]

\* award that forgets the balance it adds to
awardOverwrites(L, amount, f) == setBalance(L, amount, f)

award(L, amount, f) ==
  LET g == getBalance(L, f) IN setBalance(g.L, Chips(g.ret) + amount, f)

reset(L, f) == setBalance(L, Chips(INITIAL_BALANCE), f)

canAfford(L, amount, f) ==
  LET g == getBalance(L, f) IN [L |-> g.L, ret |-> Chips(g.ret) >= amount]

isUsingMemoryFallback(L) == [L |-> L, ret |-> L.useMemoryFallback]

Faults == [r : BOOLEAN, w : BOOLEAN]
NoFault == [r |-> FALSE, w |-> FALSE]

\* ================================================================ Plinko
\* createPegs, lines 94-98: the pegs created in each row, row 0 at index 1
pegsInRow(row) == row + 3
pegRows == [k \in 1..rows |-> pegsInRow(k - 1)]

\* createPegs, lines 117-131: the bucket intervals, bucket i at index i + 1
finalRowPegs == rows + 3
finalRowWidth == (finalRowPegs - 1) * pegGap * Unit
centerX == (canvasWidth * Unit) \div 2
finalStartX == centerX - finalRowWidth \div 2

leftBound(i) ==
  IF i = 0 THEN 0
  ELSE finalStartX + (i - 1) * pegGap * Unit + (pegGap * Unit) \div 2

rightBound(i) ==
  IF i = finalRowPegs THEN canvasWidth * Unit
  ELSE finalStartX + i * pegGap * Unit - (pegGap * Unit) \div 2

createPegs ==
  [k \in 1..(finalRowPegs + 1) |->
     [left |-> leftBound(k - 1), right |-> rightBound(k - 1),
      center |-> (leftBound(k - 1) + rightBound(k - 1)) \div 2]]

VARIABLES
  \* chip-manager.js
  stored, memoryBalance, useMemoryFallback, notified,
  \* plinko.js
  balls, isDropping, bucketPositions, world, betInput, ball,
  enableTimers, retireTimers, result,
  \* observers: what the handler just run did (how dropBall returned,
  \* whether the collision listener met a ball that had landed before),
  \* balls created so far, runs of handleBallLanding per ball, wager read
  \* at each live ball's drop, wagers taken and chips awarded in total, the
  \* balance the session opened with, the last call made on the ledger by
  \* another caller
  outcome, nextBall, awards, wagerAtSpawn, wagered, credited, opening, call

vars == <<stored, memoryBalance, useMemoryFallback, notified,
          balls, isDropping, bucketPositions, world, betInput, ball,
          enableTimers, retireTimers, result,
          outcome, nextBall, awards, wagerAtSpawn, wagered, credited,
          opening, call>>

BallIds == 1..(CapDrops + 1)

NoBall == [betAmount |-> 0, landed |-> FALSE]

\* the whole program state as one record, so that handlers compose
State ==
  [L |-> [stored |-> stored, memoryBalance |-> memoryBalance,
          useMemoryFallback |-> useMemoryFallback, notified |-> <<>>,
          threw |-> FALSE],
   balls |-> balls, isDropping |-> isDropping,
   bucketPositions |-> bucketPositions, world |-> world,
   betInput |-> betInput, ball |-> ball,
   enableTimers |-> enableTimers, retireTimers |-> retireTimers,
   result |-> result, outcome |-> "none", nextBall |-> nextBall,
   awards |-> awards, wagerAtSpawn |-> wagerAtSpawn,
   wagered |-> wagered, credited |-> credited, opening |-> opening,
   call |-> call]

Becomes(S) ==
  /\ stored' = S.L.stored
  /\ memoryBalance' = S.L.memoryBalance
  /\ useMemoryFallback' = S.L.useMemoryFallback
  /\ notified' = S.L.notified
  /\ balls' = S.balls
  /\ isDropping' = S.isDropping
  /\ bucketPositions' = S.bucketPositions
  /\ world' = S.world
  /\ betInput' = S.betInput
  /\ ball' = S.ball
  /\ enableTimers' = S.enableTimers
  /\ retireTimers' = S.retireTimers
  /\ result' = S.result
  /\ outcome' = S.outcome
  /\ nextBall' = S.nextBall
  /\ awards' = S.awards
  /\ wagerAtSpawn' = S.wagerAtSpawn
  /\ wagered' = S.wagered
  /\ credited' = S.credited
  /\ opening' = S.opening
  /\ call' = S.call

\* `parseInt(betInput.value, 10) || 100`, lines 287 and 341
BetOf(text) ==
  IF text = <<>> THEN DefaultBet
  ELSE IF ParseInt(text) = 0 THEN DefaultBet
  ELSE ParseInt(text)

NoResult ==
  [bucketIndex |-> 0, multiplierIndex |-> 0, multiplier |-> 0,
   winAmount |-> 0, profit |-> 0, class |-> "none", wager |-> 0,
   balanceChange |-> 0]

\* updateResult, lines 242-259, and highlightBucket, lines 268-278; wager
\* and balanceChange observe the round for the properties below
updateResult(bi, mi, multiplier, winAmount, betAmount, wager, change) ==
  LET profit == winAmount - betAmount IN
  [bucketIndex |-> bi, multiplierIndex |-> mi,
   multiplier |-> multiplier, winAmount |-> winAmount,
   profit |-> IF profit > 0 THEN profit
              ELSE IF profit < 0 THEN profit ELSE 0,
   class |-> IF profit > 0 THEN "win"
             ELSE IF profit < 0 THEN "lose" ELSE "",
   wager |-> wager, balanceChange |-> change]

RECURSIVE scanBuckets(_, _, _)
\* the loop of lines 206-212: the first i with left <= x < right, else 0
scanBuckets(bp, x, i) ==
  IF i >= Len(bp) THEN 0
  ELSE IF x >= bp[i + 1].left /\ x < bp[i + 1].right THEN i
  ELSE scanBuckets(bp, x, i + 1)

multiplierIndexOf(bucketIndex) == Min(bucketIndex, Len(multipliers) - 1)

\* Math.floor(betAmount * multiplier), the multiplier in tenths
winAmountOf(betAmount, multiplier) == (betAmount * multiplier) \div MultUnit

\* the balance getBalance() would return, read without touching the ledger
Balance(L) ==
  IF L.useMemoryFallback
    THEN IF L.memoryBalance = <<>> THEN INITIAL_BALANCE
         ELSE L.memoryBalance[1]
  ELSE IF L.stored = <<>> THEN INITIAL_BALANCE
  ELSE ParseInt(L.stored)

\* a landing that reads the bet input instead of the ball's own wager
betAmountOfInput(S, b) == BetOf(S.betInput)

\* `ball.betAmount`, line 219
betAmountOf(S, b) == S.ball[b].betAmount

\* handleBallLanding, lines 202-240
handleBallLanding(S, b, x, f) ==
  LET bucketIndex == scanBuckets(S.bucketPositions, x, 0)
      multiplierIndex == multiplierIndexOf(bucketIndex)
      multiplier == multipliers[multiplierIndex + 1]
      betAmount == betAmountOf(S, b)
      winAmount == winAmountOf(betAmount, multiplier)
      a == award(S.L, Chips(winAmount), f)
  IN [S EXCEPT
        !.L = a.L,
        !.result = updateResult(bucketIndex, multiplierIndex, multiplier,
                                winAmount, betAmount, S.wagerAtSpawn[b],
                                a.ret - Balance(S.L)),
        !.retireTimers[b] = @ + 1,
        !.awards[b] = @ + 1,
        !.credited = @ + winAmount]

\* a listener without the landed guard
onPairUnguarded(S, b, x, f) ==
  handleBallLanding([S EXCEPT !.ball[b].landed = TRUE,
                              !.outcome = "settled"], b, x, f)

\* one pair of a collisionStart event, lines 187-198
onPair(S, b, x, f) ==
  IF ~S.ball[b].landed
    THEN handleBallLanding(
           [S EXCEPT !.ball[b].landed = TRUE,
                     !.outcome = IF @ = "repeat" THEN @ ELSE "settled"],
           b, x, f)
  ELSE [S EXCEPT !.outcome = "repeat"]

RECURSIVE forEachPair(_, _, _, _)
\* the collisionStart listener, lines 186-199: pairs lists the balls that
\* touch the bottom sensor, pos[b] is ball b's position.x
forEachPair(S, pairs, pos, f) ==
  IF pairs = <<>> THEN S
  ELSE forEachPair(onPair(S, Head(pairs), pos[Head(pairs)], f),
                   Tail(pairs), pos, f)

\* a retire timer that leaves the drop control alone
retireKeepsDisabled(S, b) ==
  [S EXCEPT !.world = @ \ {b},
            !.balls = SelectSeq(@, LAMBDA e : e # b),
            !.retireTimers[b] = @ - 1,
            !.ball[b] = IF S.retireTimers[b] = 1 THEN NoBall ELSE @,
            !.wagerAtSpawn[b] = IF S.retireTimers[b] = 1 THEN 0 ELSE @]

\* a retire timer that clears the board
retireAll(S, b) ==
  [S EXCEPT !.world = {},
            !.balls = <<>>,
            !.retireTimers[b] = @ - 1,
            !.isDropping = FALSE]

\* the 500 ms timer of handleBallLanding, lines 230-239; the ball object is
\* unreferenced afterwards
retire(S, b) ==
  LET rest == SelectSeq(S.balls, LAMBDA e : e # b) IN
  [S EXCEPT !.world = @ \ {b},
            !.balls = rest,
            !.retireTimers[b] = @ - 1,
            !.isDropping = IF Len(rest) = 0 THEN FALSE ELSE @,
            !.ball[b] = IF S.retireTimers[b] = 1 THEN NoBall ELSE @,
            !.wagerAtSpawn[b] = IF S.retireTimers[b] = 1 THEN 0 ELSE @]

\* a re-enable timer that does not look at the number of balls
reEnableAlways(S) ==
  [S EXCEPT !.enableTimers = @ - 1, !.isDropping = FALSE]

\* the 300 ms timer of dropBall, lines 331-336
reEnable(S) ==
  [S EXCEPT !.enableTimers = @ - 1,
            !.isDropping = IF Len(S.balls) < BallCap THEN FALSE ELSE @]

\* window.dropBall, lines 283-337
dropBall(S, f1, f2) ==
  IF S.isDropping THEN [S EXCEPT !.outcome = "busy"]
  ELSE
    LET betAmount == BetOf(S.betInput) IN
    IF betAmount < MinBet THEN [S EXCEPT !.outcome = "min"]
    ELSE
      LET c == canAfford(S.L, Chips(betAmount), f1) IN
      IF ~c.ret THEN [S EXCEPT !.L = c.L, !.outcome = "funds"]
      ELSE
        LET d == deduct(c.L, Chips(betAmount), f2)
            id == S.nextBall + 1
        IN [S EXCEPT
              !.L = d.L,
              !.isDropping = TRUE,
              !.ball[id] = [betAmount |-> betAmount, landed |-> FALSE],
              !.balls = Append(@, id),
              !.world = @ \cup {id},
              !.enableTimers = @ + 1,
              !.nextBall = id,
              !.outcome = "dropped",
              !.wagerAtSpawn[id] = BetOf(S.betInput),
              !.wagered = @ + BetOf(S.betInput)]

\* window.adjustBet, lines 339-344
adjustBet(S, delta) ==
  LET value == Max(MinBet, Min(AdjustMax, BetOf(S.betInput) + delta)) IN
  [S EXCEPT !.betInput = toString(value)]

\* window.setBet, lines 346-348
setBet(S, amount) == [S EXCEPT !.betInput = toString(amount)]

\* ================================================================ actions
\* the events that report at most n pairs, each a live ball on the sensor
PairSeqs(n) == UNION {[1..k -> world] : k \in 1..n}

\* a drop request; F is the set of store faults the environment may inject,
\* at most n balls are created in a run
DropBall(F, n) ==
  /\ nextBall < n \/ isDropping
  /\ \E f1 \in F, f2 \in F : Becomes(dropBall(State, f1, f2))

\* a collisionStart event of the engine between the sensor and live balls
CollisionStart(F, n) ==
  \E pairs \in PairSeqs(n), pos \in Positions, f \in F :
    Becomes(forEachPair(State, pairs, pos, f))

\* A 500 ms retire timer fires.  The 300 ms timer set when the ball was
\* dropped has a shorter delay and was set earlier, so it has already fired.
RetireTimer ==
  \E b \in BallIds :
    /\ retireTimers[b] > 0
    /\ b <= nextBall - enableTimers
    /\ Becomes(retire(State, b))

ReEnableTimer ==
  /\ enableTimers > 0
  /\ Becomes(reEnable(State))

AdjustBet == \E delta \in AdjustDeltas : Becomes(adjustBet(State, delta))

SetBet == \E amount \in SetBetAmounts : Becomes(setBet(State, amount))

NoCall ==
  [op |-> "none", amount |-> 0, ret |-> 0, ok |-> FALSE, threw |-> FALSE,
   n |-> 0]

\* The page after initGame, nothing dropped yet.
InitGame ==
  /\ call = NoCall
  /\ notified = <<>>
  /\ balls = <<>>
  /\ isDropping = FALSE
  /\ bucketPositions = createPegs
  /\ world = {}
  /\ betInput = toString(DefaultBet)
  /\ ball = [b \in BallIds |-> NoBall]
  /\ enableTimers = 0
  /\ retireTimers = [b \in BallIds |-> 0]
  /\ result = NoResult
  /\ outcome = "none"
  /\ nextBall = 0
  /\ awards = [b \in BallIds |-> 0]
  /\ wagerAtSpawn = [b \in BallIds |-> 0]
  /\ wagered = 0
  /\ credited = 0
  /\ opening = Balance([stored |-> stored, memoryBalance |-> memoryBalance,
                        useMemoryFallback |-> useMemoryFallback])

\* The store passed the probe of lines 17-33 and holds what an earlier
\* session wrote: nothing, or a balance.
Init ==
  /\ useMemoryFallback = FALSE
  /\ memoryBalance = <<>>
  /\ stored \in {<<>>} \cup {toString(v) : v \in StoredAtStart}
  /\ InitGame

\* the store stays available
Next ==
  \/ DropBall({NoFault}, MaxDrops)
  \/ CollisionStart({NoFault}, MaxPairs)
  \/ RetireTimer
  \/ ReEnableTimer
  \/ AdjustBet
  \/ SetBet

Spec == Init /\ [][Next]_vars

\* Rapid play at one stake: the bet input is left alone, more balls are
\* dropped than the cap admits, and a collision event reports one pair (an
\* event of several pairs acts as that many events in a row).
CapInit ==
  /\ useMemoryFallback = FALSE
  /\ memoryBalance = <<>>
  /\ stored = <<>>
  /\ InitGame

CapNext ==
  \/ DropBall({NoFault}, CapDrops)
  \/ CollisionStart({NoFault}, 1)
  \/ RetireTimer
  \/ ReEnableTimer

CapSpec == CapInit /\ [][CapNext]_vars

\* rapid play in which every timer that has been set fires
CapFairSpec == CapSpec /\ WF_vars(RetireTimer) /\ WF_vars(ReEnableTimer)

\* Play at one stake with the store available.  A timer that has been set
\* fires: the event loop runs every due callback.
FairNext ==
  \/ DropBall({NoFault}, MaxDrops)
  \/ CollisionStart({NoFault}, MaxPairs)
  \/ RetireTimer
  \/ ReEnableTimer

FairSpec ==
  Init /\ [][FairNext]_vars /\ WF_vars(RetireTimer) /\ WF_vars(ReEnableTimer)

\* the game while any access of the store may throw
FaultNext ==
  \/ DropBall(Faults, MaxDrops)
  \/ CollisionStart(Faults, MaxPairs)
  \/ RetireTimer
  \/ ReEnableTimer
  \/ AdjustBet
  \/ SetBet

FaultSpec == Init /\ [][FaultNext]_vars

\* The ledger as other pages of the arcade use it: calls of its public API
\* with any amount, while the store may throw on any access.  The store
\* either failed the probe of lines 17-33 or holds what an earlier session
\* wrote.
LedgerInit ==
  /\ \/ /\ useMemoryFallback = TRUE
        /\ memoryBalance = <<INITIAL_BALANCE>>
        /\ stored = <<>>
     \/ /\ useMemoryFallback = FALSE
        /\ memoryBalance = <<>>
        /\ stored \in {<<>>} \cup {toString(v) : v \in StoredAtStart}
  /\ InitGame

Ledger ==
  [stored |-> stored, memoryBalance |-> memoryBalance,
   useMemoryFallback |-> useMemoryFallback, notified |-> <<>>,
   threw |-> FALSE]

\* the operations of the ledger that answer true or false
BooleanOps == {"deduct", "canAfford", "isUsingMemoryFallback"}

\* the call op(amount) returned r
Returned(op, amount, r) ==
  /\ call.n < MaxCalls
  /\ stored' = r.L.stored
  /\ memoryBalance' = r.L.memoryBalance
  /\ useMemoryFallback' = r.L.useMemoryFallback
  /\ notified' = r.L.notified
  /\ call' = [op |-> op, amount |-> amount,
              ret |-> IF op \in BooleanOps THEN 0 ELSE r.ret,
              ok |-> IF op \in BooleanOps THEN r.ret ELSE FALSE,
              threw |-> r.L.threw, n |-> call.n + 1]
  /\ UNCHANGED <<balls, isDropping, bucketPositions, world, betInput, ball,
                 enableTimers, retireTimers, result, outcome, nextBall,
                 awards, wagerAtSpawn, wagered, credited, opening>>

GetBalanceCall ==
  \E f \in Faults : Returned("getBalance", 0, getBalance(Ledger, f))

SetBalanceCall ==
  \E a \in ApiAmounts, f \in Faults :
    Returned("setBalance", a, setBalance(Ledger, a, f))

DeductCall ==
  \E a \in ApiAmounts, f \in Faults :
    Returned("deduct", a, deduct(Ledger, a, f))

AwardCall ==
  \E a \in ApiAmounts, f \in Faults :
    Returned("award", a, award(Ledger, a, f))

ResetCall == \E f \in Faults : Returned("reset", 0, reset(Ledger, f))

CanAffordCall ==
  \E a \in ApiAmounts, f \in Faults :
    Returned("canAfford", a, canAfford(Ledger, a, f))

IsUsingMemoryFallbackCall ==
  Returned("isUsingMemoryFallback", 0, isUsingMemoryFallback(Ledger))

LedgerNext ==
  \/ GetBalanceCall
  \/ SetBalanceCall
  \/ DeductCall
  \/ AwardCall
  \/ ResetCall
  \/ CanAffordCall
  \/ IsUsingMemoryFallbackCall

LedgerSpec == LedgerInit /\ [][LedgerNext]_vars

\* ============================================================= properties
\* what getBalance() would return in the current state
balance ==
  Balance([stored |-> stored, memoryBalance |-> memoryBalance,
           useMemoryFallback |-> useMemoryFallback])

boardWidth == canvasWidth * Unit

\* every position on the board, and positions just off either edge
BoardX == 0..(boardWidth - 1)
OutsideX == ((0 - 10 * Unit)..(0 - 1)) \cup (boardWidth..(boardWidth + 10 * Unit))

InBucket(x, i) ==
  /\ bucketPositions[i + 1].left <= x
  /\ x < bucketPositions[i + 1].right

\* the step is a run of dropBall
DropStep == outcome' \in {"busy", "min", "funds", "dropped"}

\* C1: the bucket intervals of createPegs partition [0, boardWidth): the
\* first starts at 0, the last ends at boardWidth, each interval ends where
\* the next starts, and none is empty or inverted.
C1_BucketsPartition ==
  LET n == Len(bucketPositions) IN
  /\ bucketPositions[1].left = 0
  /\ bucketPositions[n].right = boardWidth
  /\ \A i \in 1..(n - 1) :
       bucketPositions[i].right = bucketPositions[i + 1].left
  /\ \A i \in 1..n : bucketPositions[i].left < bucketPositions[i].right

\* C2: for every landing position x in [0, boardWidth) the bucket index
\* handleBallLanding chooses is that of an interval containing x.
C2_LandingInChosenBucket ==
  \A x \in BoardX : InBucket(x, scanBuckets(bucketPositions, x, 0))

\* C3: every multiplier of the table is the outcome of some landing
\* position on the board; in particular a wager of 100 can settle at 0.3,
\* winning 30 for a profit of -70.
C3_EveryMultiplierReachable ==
  /\ \A k \in 1..Len(multipliers) :
       \E x \in BoardX :
         multipliers[multiplierIndexOf(scanBuckets(bucketPositions, x, 0)) + 1]
           = multipliers[k]
  /\ \E x \in BoardX :
       LET m == multipliers[
                  multiplierIndexOf(scanBuckets(bucketPositions, x, 0)) + 1]
       IN /\ m = 3
          /\ winAmountOf(100, m) = 30
          /\ updateResult(0, 0, m, winAmountOf(100, m), 100, 100, 30).profit
               = 0 - 70

\* C4: a landing position outside every interval resolves to the nearest
\* bucket: the first when x is left of the board, the last when x is at or
\* beyond its right edge.
C4_ClampsToNearest ==
  \A x \in OutsideX :
    (\A i \in 0..(Len(bucketPositions) - 1) : ~InBucket(x, i))
      => scanBuckets(bucketPositions, x, 0)
           = IF x < 0 THEN 0 ELSE Len(bucketPositions) - 1

\* C5: whatever sensor collisions are reported for a ball, in one event or
\* during its cooldown, handleBallLanding (and so ChipManager.award) runs at
\* most once for it, and while the ball is in the world its landed flag is
\* set exactly when that run has happened.
C5_LandsOnce ==
  \A b \in BallIds :
    /\ awards[b] <= 1
    /\ b \in world => (ball[b].landed <=> awards[b] = 1)

\* a collision was just reported for a ball that had already landed and is
\* still waiting for its retire timer
C5_Witness ==
  /\ outcome = "repeat"
  /\ \E b \in world :
       ball[b].landed /\ awards[b] = 1 /\ retireTimers[b] = 1

\* C6: with the store available, the balance is the opening balance minus
\* the wagers of all accepted drops plus the winnings of all settled balls;
\* a bet of 100 settled at multiplier 10 reports a profit of +900.
C6_MoneyBalances ==
  /\ balance = opening - wagered + credited
  /\ (result.wager = 100 /\ result.multiplier = 100)
       => (result.profit = 900 /\ result.class = "win")

\* opening 10000, two bets of 100 dropped, one settled at 10 while the other
\* is still falling
C6_Witness ==
  /\ opening = 10000
  /\ Len(balls) = 2
  /\ \E b \in world : ~ball[b].landed
  /\ wagered = 200
  /\ credited = 1000
  /\ balance = 10800
  /\ result.profit = 900

\* C7: the chips credited at a settlement are floor(w * m), for w the wager
\* read when that ball was dropped and m the multiplier resolved for it, and
\* the balance rises by exactly that amount; floor never rounds up.
C7_PayoutIsFloor ==
  /\ result.class # "none" =>
       /\ MultUnit * result.winAmount <= result.wager * result.multiplier
       /\ result.wager * result.multiplier < MultUnit * (result.winAmount + 1)
       /\ result.balanceChange = result.winAmount
  /\ \A w \in {10, 15, 100, 10500}, k \in 1..Len(multipliers) :
       /\ MultUnit * winAmountOf(w, multipliers[k]) <= w * multipliers[k]
       /\ w * multipliers[k] < MultUnit * (winAmountOf(w, multipliers[k]) + 1)

\* a ball has settled at its own wager after the bet input was changed and
\* while a ball with another wager is still falling
C7_Witness ==
  /\ result.class # "none"
  /\ BetOf(betInput) # result.wager
  /\ \E b \in world : ~ball[b].landed /\ wagerAtSpawn[b] # result.wager

\* C8: a drop request whose bet input is below the minimum stake of 10, or
\* above the current balance, changes neither the balance nor the in-flight
\* set nor the drop control.
C8_BadWagerRejected ==
  [][(DropStep /\ (ParseInt(betInput) < MinBet \/ ParseInt(betInput) > balance))
       => (balance' = balance /\ balls' = balls /\ isDropping' = isDropping)]_vars

\* C9: a drop request whose bet input is above the maximum wager of 10000
\* debits nothing and spawns no ball.
C9_AboveMaxRejected ==
  [][(DropStep /\ ParseInt(betInput) > AdjustMax)
       => (balance' = balance /\ balls' = balls)]_vars

\* C10: at most 5 balls are in flight, and a drop request made while 5 or
\* more are in flight is rejected without a debit and without a new ball.
C10_CapHolds ==
  /\ [](Len(balls) <= BallCap)
  /\ [][(DropStep /\ Len(balls) >= BallCap)
          => (outcome' = "busy" /\ balance' = balance /\ balls' = balls
              /\ nextBall' = nextBall)]_vars

\* five balls are in flight and a drop request has just been turned away
C10_Witness == Len(balls) = BallCap /\ outcome = "busy"

\* C11: once the cap has been hit, a valid, affordable drop request is
\* accepted as soon as a ball has been retired and fewer than 5 are in
\* flight (no 300 ms re-enable timer of an earlier drop being pending).
C11_AcceptedAfterOneRetires ==
  [][(/\ DropStep
      /\ Len(balls) < BallCap
      /\ Len(balls) < nextBall
      /\ enableTimers = 0
      /\ BetOf(betInput) >= MinBet
      /\ balance >= BetOf(betInput))
       => outcome' = "dropped"]_vars

\* the whole chips of an amount given in halves: the integer v with
\* v <= amount < v + 1, or 0 when the amount is negative
IsClampedFloor(v, amount) ==
  IF amount < 0 THEN v = 0
  ELSE AmtUnit * v <= amount /\ amount < AmtUnit * (v + 1)

\* C12: the balance is never negative; setBalance(amount) stores and returns
\* max(0, floor(amount)); getBalance, award and reset return the balance
\* they leave behind, which is not negative, whatever amounts were passed
\* and whether or not the store threw.
C12_BalanceIsNatural ==
  /\ balance \in Nat
  /\ call.op = "setBalance"
       => call.ret = balance /\ IsClampedFloor(call.ret, call.amount)
  /\ call.op \in {"getBalance", "award", "reset"}
       => call.ret = balance /\ call.ret \in Nat
  /\ call.op = "reset" => call.ret = INITIAL_BALANCE

\* an award of a negative amount larger than the balance has left 0 behind
C12_Witness ==
  /\ call.op = "award"
  /\ call.amount < 0
  /\ call.ret = 0
  /\ balance = 0

\* the ledger operation op has just returned
Called(op) == call'.n = call.n + 1 /\ call'.op = op

\* a whole, non-negative number of chips
IsWholeAmount(a) == a >= 0 /\ a % AmtUnit = 0

\* C13: deduct of a whole amount returns true and lowers the balance by
\* exactly that amount when the balance covers it, and returns false and
\* leaves the balance unchanged when it does not.
C13_DeductContract ==
  [][(Called("deduct") /\ IsWholeAmount(call'.amount))
       => IF Chips(balance) >= call'.amount
            THEN call'.ok /\ Chips(balance') = Chips(balance) - call'.amount
          ELSE ~call'.ok /\ balance' = balance]_vars

\* the last ledger call changed, or rewrote, the balance
Mutated ==
  \/ call.op \in {"setBalance", "award", "reset"}
  \/ call.op = "deduct" /\ call.ok

\* C14: a ledger mutation (setBalance, successful deduct, award, reset)
\* dispatches exactly one chipBalanceChange, carrying the resulting balance,
\* also when no balance has been stored before.
C14_OneNotification == Mutated => notified = <<balance>>

\* C15: canAfford(amount) answers whether the balance covers the amount and
\* changes nothing: the store entry, the in-memory balance and the fallback
\* flag stay as they were and no chipBalanceChange is dispatched, also when
\* no balance has been stored before.
C15_CanAffordIsPure ==
  [][Called("canAfford")
       => /\ call'.ok = (Chips(balance) >= call'.amount)
          /\ stored' = stored
          /\ memoryBalance' = memoryBalance
          /\ useMemoryFallback' = useMemoryFallback
          /\ notified' = <<>>]_vars

\* the balance the requested operation alone leads to
Requested(op, amount, b) ==
  CASE op = "setBalance" -> valueOf(amount)
    [] op = "reset" -> INITIAL_BALANCE
    [] op = "award" -> valueOf(Chips(b) + amount)
    [] op = "deduct" ->
         IF Chips(b) < amount THEN b ELSE valueOf(Chips(b) - amount)
    [] OTHER -> b

\* C16: once the balance has been set, a throwing store read or write does
\* not change it: after every ledger call the balance is the earlier balance
\* adjusted by the requested operation only.
C16_FailuresAreTransparent ==
  [][(Mutated /\ call'.n = call.n + 1)
       => balance' = Requested(call'.op, call'.amount, balance)]_vars

\* C17: after a store read or write has thrown during a ledger operation,
\* isUsingMemoryFallback() returns true; once it is true it stays true, and
\* the store is neither read nor written again (its entry keeps its value
\* and no later access can throw).
C17_FallbackIsPermanent ==
  /\ [](call.threw => useMemoryFallback)
  /\ [][/\ Called("isUsingMemoryFallback") => call'.ok = useMemoryFallback
        /\ useMemoryFallback
             => useMemoryFallback' /\ stored' = stored /\ ~call'.threw]_vars

\* a read of the entry left by an earlier session threw, and a later query
\* reports the degraded mode
C17_Witness ==
  /\ stored # <<>>
  /\ call.n >= 2
  /\ call.op = "isUsingMemoryFallback"
  /\ call.ok

\* C18: there is one bucket interval more than there are pegs in the last
\* peg row created, and the multiplier table has one entry per bucket
\* interval.
C18_BucketsMatchPegsAndTable ==
  /\ Len(bucketPositions) = pegRows[Len(pegRows)] + 1
  /\ Len(multipliers) = Len(bucketPositions)

\* C19: a drop request either debits exactly the wager and puts exactly one
\* ball tagged with that wager in flight, or changes neither the balance nor
\* the balls in flight, also when the store throws during the request.
C19_DropIsAtomic ==
  [][DropStep
       => \/ /\ balance' = balance - BetOf(betInput)
             /\ nextBall' = nextBall + 1
             /\ balls' = Append(balls, nextBall')
             /\ ball'[nextBall'].betAmount = BetOf(betInput)
          \/ /\ balance' = balance
             /\ balls' = balls
             /\ nextBall' = nextBall]_vars

\* ball b is in flight: in the balls array and in the engine's world
InFlight(b) == b \in world /\ \E k \in 1..Len(balls) : balls[k] = b

\* ball b is in neither the balls array nor the world
Removed(b) == b \notin world /\ \A k \in 1..Len(balls) : balls[k] # b

\* C20: a ball leaves the balls in flight only after it has landed and has
\* been credited, so a ball that has not landed is never removed; and every
\* landed ball is eventually removed, given that timers that are set fire.
C20_RetiredAfterSettlement ==
  /\ [][\A b \in BallIds :
          (InFlight(b) /\ ~InFlight(b)')
            => ball[b].landed /\ awards[b] >= 1 /\ Removed(b)']_vars
  /\ \A b \in 1..MaxDrops : (InFlight(b) /\ ball[b].landed) ~> Removed(b)

\* a ball has been dropped, has landed, was credited once and is gone
C20_Witness ==
  \E b \in BallIds :
    b <= nextBall /\ awards[b] = 1 /\ Removed(b) /\ retireTimers[b] = 0

\* some ball in flight has not landed yet
Falling == \E b \in world : ~ball[b].landed

\* C21: whenever no ball is in flight the drop control is enabled
\* (isDropping is false); and when every ball in flight eventually lands
\* (no ball keeps falling for ever) and every timer that is set fires, a
\* disabled drop control is eventually enabled again.
C21_EnabledWhenEmpty ==
  /\ [](balls = <<>> => ~isDropping)
  /\ []<>(~Falling) => (isDropping ~> ~isDropping)

\* the cap's worth of balls has been dropped, all of them have landed and
\* been retired, and the drop control is enabled
C21_Witness ==
  /\ nextBall >= BallCap
  /\ balls = <<>>
  /\ \A b \in 1..nextBall : awards[b] = 1 /\ retireTimers[b] = 0
  /\ enableTimers = 0
  /\ ~isDropping

====
